---- MODULE Spec2Model ----
(***************************************************************************)
(* sqlite-up: the Migrator of src/src/index.ts as a state machine.         *)
(*                                                                         *)
(* Several Migrator instances ("engines"), each with its own connection,   *)
(* share one SQLite database.  An invocation ("call") of apply, rollback,  *)
(* status or plan runs on one engine.  Calls of different engines          *)
(* interleave at every database statement; calls of the same engine share  *)
(* one event loop and interleave only at the awaits of init().  A run has  *)
(* either one caller on each of two engines or several callers on engine 1.*)
(*                                                                         *)
(* Migration names are the integers 1..NMig, ordered as the file names     *)
(* are; 0 stands for a directory entry that is not a .ts/.js file.         *)
(***************************************************************************)
EXTENDS Integers, Sequences, FiniteSets, TLC

\* ---------------------------------------------------------------- bounds
NCalls == 3
NEngines == 2
NMig == 2
MaxOps == 3

Calls == 1..NCalls
Engines == 1..NEngines
Names == 1..NMig
NotAMigrationFile == 0

\* The engine (Migrator instance) a call is made on.
EngineOf(c) == ((c - 1) % NEngines) + 1

VARIABLES
  lockTable,    \* schema_migrations_lock: <<>> before the row exists, else <<locked>>
  ledger,       \* schema_migrations: name -> batch, 0 when the name has no row
  effects,      \* name -> committed forward runs minus committed backward runs
  writer,       \* the call whose open transaction holds the write lock, or 0
  txLedger,     \* the open write transaction's view of the ledger
  txEffects,    \* the open write transaction's view of the schema effects
  dir,          \* engine -> the entries of its migrationsDir
  initialized,  \* engine -> this.initialized
  migrations,   \* engine -> this.migrations
  pc,           \* call -> position in the operation
  op,           \* call -> "apply" | "rollback" | "status" | "plan"
  row,          \* call -> the locked value acquireLock read (-1 before the read)
  stale,        \* call -> the acquireLock transaction's snapshot was overwritten
  batch,        \* call -> currentBatch as read by the call
  todo,         \* call -> pendingMigrations / rows still to run
  applied,      \* call -> appliedMigrations
  invoked,      \* call -> names whose up/down was invoked by the call
  pre,          \* call -> ledger and effects when the call acquired the lock
  wrote,        \* call -> the call committed a batch transaction
  ret,          \* call -> value of the return statement, before finally runs
  result,       \* call -> what the caller received
  events,       \* call -> the (name, batch) pairs the call passed to this.emit
  errUnit,      \* call -> the name in the message of the MigrationExecutionError
                \*         thrown by the call's loop, 0 when no such error
  again,        \* call -> apply() started after an apply() of its engine succeeded,
                \*         and no rollback has committed since that apply()
  fresh,        \* call -> its apply() succeeded and no rollback has committed since
  chain,        \* the names of the last committed apply() batch, and whether it
                \*   started from an empty ledger; cleared when a rollback returns
  callers,      \* the calls the application makes use of in this run
  highest,      \* the highest batch number a committed apply() has assigned so far
  holder,       \* the call whose acquireLock() succeeded last, 0 once the lock
                \*   record was set back to 0
  nops          \* number of operations started

dbVars == <<lockTable, ledger, effects, writer, txLedger, txEffects>>
engVars == <<dir, initialized, migrations>>
callVars == <<pc, op, row, stale, batch, todo, applied, invoked, pre, wrote, ret, result>>
emitVars == <<events, errUnit>>
histVars == <<again, fresh, chain, callers, highest, holder, nops>>
vars == <<dbVars, engVars, callVars, emitVars, histVars>>

\* ------------------------------------------------------------ pure helpers
MinOf(S) == CHOOSE x \in S : \A y \in S : x <= y
MaxOf(S) == CHOOSE x \in S : \A y \in S : x >= y

RECURSIVE SortAsc(_)
SortAsc(S) == IF S = {} THEN <<>> ELSE <<MinOf(S)>> \o SortAsc(S \ {MinOf(S)})

RECURSIVE SortDesc(_)
SortDesc(S) == IF S = {} THEN <<>> ELSE <<MaxOf(S)>> \o SortDesc(S \ {MaxOf(S)})

Range(s) == {s[i] : i \in 1..Len(s)}

EmptyLedger == [n \in Names |-> 0]
NoEffects == [n \in Names |-> 0]
NoSnapshot == [ledger |-> EmptyLedger, effects |-> NoEffects]
NoChain == [applied |-> <<>>, fromEmpty |-> FALSE]

\* file.endsWith('.ts') || file.endsWith('.js')
IsMigrationFile(f) == f # NotAMigrationFile

\* entries.filter(...).sort(), every file imported and pushed
LoadedDescending(entries) == SortDesc({f \in entries : IsMigrationFile(f)})
LoadedMigrations(entries) == SortAsc({f \in entries : IsMigrationFile(f)})

\* SELECT MAX(batch) ... ; row?.batch ?? 0
NoCurrentBatch(L) == 0
LowestBatch(L) ==
  IF \A n \in Names : L[n] = 0 THEN 0 ELSE MinOf({L[n] : n \in Names} \ {0})
GetCurrentBatch(L) ==
  IF \A n \in Names : L[n] = 0 THEN 0 ELSE MaxOf({L[n] : n \in Names})

\* SELECT name FROM schema_migrations
AppliedNames(L) == {n \in Names : L[n] # 0}

\* this.migrations.filter((m) => !appliedNames.has(m.name))
PendingNoFilter(migs, L) == migs
PendingMigrations(migs, L) ==
  LET NotApplied(m) == m \notin AppliedNames(L) IN SelectSeq(migs, NotApplied)

\* SELECT name ... WHERE batch = ? ORDER BY name DESC
RowsAllBatches(L, b) == SortDesc(AppliedNames(L))
RowsAscending(L, b) == SortAsc({n \in Names : L[n] = b /\ b # 0})
RowsOfBatch(L, b) == SortDesc({n \in Names : L[n] = b /\ b # 0})

\* INSERT INTO schema_migrations (name, executed_at, batch): name is the primary key
CanRecord(L, name) == L[name] = 0
RecordNothing(L, name, b) == L
RecordMigration(L, name, b) == [L EXCEPT ![name] = b]

\* DELETE FROM schema_migrations WHERE name = ? AND batch = ?
RemoveNothing(L, name, b) == L
RemoveMigration(L, name, b) == IF L[name] = b THEN [L EXCEPT ![name] = 0] ELSE L

\* row.locked === 1
LockNeverHeld(r) == FALSE
LockIsHeld(r) == r = 1

\* UPDATE lock SET locked = 1 / locked = 0 WHERE id = 1
Locked(t) == <<1>>
StillLocked(t) == t
Unlocked(t) == <<0>>

\* INSERT OR IGNORE INTO lock (id, locked) VALUES (1, 0)
InsertOrReplaceLockRow(t) == <<0>>
InsertOrIgnoreLockRow(t) == IF Len(t) = 0 THEN <<0>> ELSE t

\* The UPDATE of acquireLock commits only on the snapshot its SELECT read.
SnapshotIgnored(s) == TRUE
SnapshotValid(s) == ~s

\* What a transaction that threw leaves behind: better-sqlite3 rolls it back.
KeepPartialWrites(committed, working) == working
RolledBack(committed, working) == committed

\* What a load that threw leaves in this.migrations: the loop fills a local
\* array, and this.migrations is assigned only after the loop.
PartialCatalog(old, loaded) == loaded
FailedLoad(old, loaded) == old

\* ------------------------------------------------------------ results
NoResult ==
  [kind |-> "none", success |-> FALSE, error |-> "none", cause |-> "none",
   applied |-> <<>>, batch |-> 0, pending |-> 0, rows |-> <<>>]

Ok(names) ==
  [kind |-> "returned", success |-> TRUE, error |-> "none", cause |-> "none",
   applied |-> names, batch |-> 0, pending |-> 0, rows |-> <<>>]

Failed(err, cause, names) ==
  [kind |-> "returned", success |-> FALSE, error |-> err, cause |-> cause,
   applied |-> names, batch |-> 0, pending |-> 0, rows |-> <<>>]

Raised(err, cause) ==
  [kind |-> "raised", success |-> FALSE, error |-> err, cause |-> cause,
   applied |-> <<>>, batch |-> 0, pending |-> 0, rows |-> <<>>]

\* apply() and rollback() catch the error of init(); status() and plan() await it bare.
AlwaysRaised(o, err, cause) == Raised(err, cause)
InitFailure(o, err, cause) ==
  IF o \in {"apply", "rollback"} THEN Failed(err, cause, <<>>) ELSE Raised(err, cause)

\* ------------------------------------------------------------ scheduling
\* Positions inside a synchronous stretch of code: no other call of the same
\* engine runs until the stretch ends.
MidSync == {"acqW", "diff", "tx", "release", "rows"}
Runnable(c) ==
  \A d \in Calls \ {c} : EngineOf(d) = EngineOf(c) => pc[d] \notin MidSync

\* Between a successful acquireLock and the end of releaseLock.
InSection(c) == pc[c] \in {"diff", "tx", "release"}

\* A committed write invalidates the snapshot of every open acquireLock transaction.
Invalidate(c) ==
  [d \in Calls |-> IF d # c /\ pc[d] = "acqW" THEN TRUE ELSE stale[d]]

\* apply() and rollback() go on to acquireLock(), status() and plan() to their queries.
AlwaysAcquire(o) == "acquire"
AfterInit(o) ==
  IF o \in {"apply", "rollback"} THEN "acquire" ELSE "batch"

\* ------------------------------------------------------------ initial state
\* One caller on each of two engines, or every caller on engine 1.
CallerChoices ==
  ({{a, b} : a, b \in Engines} \ {{a} : a \in Engines})
    \cup {{c \in Calls : EngineOf(c) = 1}}

\* Every unit plus a file that is not a migration, or every unit but the first.
DirChoices == {Names \cup {NotAMigrationFile}, Names \ {1}}

Init ==
  /\ lockTable = <<>>
  /\ ledger = EmptyLedger
  /\ effects = NoEffects
  /\ writer = 0
  /\ txLedger = EmptyLedger
  /\ txEffects = NoEffects
  /\ dir \in {d \in [Engines -> DirChoices] :
                \A e \in Engines : e # NEngines => d[e] = Names \cup {NotAMigrationFile}}
  /\ initialized = [e \in Engines |-> FALSE]
  /\ migrations = [e \in Engines |-> <<>>]
  /\ pc = [c \in Calls |-> "idle"]
  /\ op = [c \in Calls |-> "apply"]
  /\ row = [c \in Calls |-> -1]
  /\ stale = [c \in Calls |-> FALSE]
  /\ batch = [c \in Calls |-> 0]
  /\ todo = [c \in Calls |-> <<>>]
  /\ applied = [c \in Calls |-> <<>>]
  /\ invoked = [c \in Calls |-> <<>>]
  /\ pre = [c \in Calls |-> NoSnapshot]
  /\ wrote = [c \in Calls |-> FALSE]
  /\ ret = [c \in Calls |-> NoResult]
  /\ result = [c \in Calls |-> NoResult]
  /\ events = [c \in Calls |-> <<>>]
  /\ errUnit = [c \in Calls |-> 0]
  /\ again = [c \in Calls |-> FALSE]
  /\ fresh = [c \in Calls |-> FALSE]
  /\ chain = NoChain
  /\ callers \in CallerChoices
  /\ highest = 0
  /\ holder = 0
  /\ nops = 0

\* ------------------------------------------------------------ call start, init()
\* The caller invokes an operation; the call's locals are fresh.
Start(c, o) ==
  /\ pc[c] = "idle"
  /\ c \in callers
  /\ \A d \in Calls : EngineOf(d) = EngineOf(c) => pc[d] \notin {"crashed", "dead"}
  /\ nops < MaxOps
  /\ Runnable(c)
  /\ pc' = [pc EXCEPT ![c] = "init"]
  /\ op' = [op EXCEPT ![c] = o]
  /\ row' = [row EXCEPT ![c] = -1]
  /\ stale' = [stale EXCEPT ![c] = FALSE]
  /\ batch' = [batch EXCEPT ![c] = 0]
  /\ todo' = [todo EXCEPT ![c] = <<>>]
  /\ applied' = [applied EXCEPT ![c] = <<>>]
  /\ invoked' = [invoked EXCEPT ![c] = <<>>]
  /\ pre' = [pre EXCEPT ![c] = NoSnapshot]
  /\ wrote' = [wrote EXCEPT ![c] = FALSE]
  /\ ret' = [ret EXCEPT ![c] = NoResult]
  /\ result' = [result EXCEPT ![c] = NoResult]
  /\ events' = [events EXCEPT ![c] = <<>>]
  /\ errUnit' = [errUnit EXCEPT ![c] = 0]
  /\ again' = [again EXCEPT ![c] =
                 o = "apply" /\ \E d \in Calls : EngineOf(d) = EngineOf(c) /\ fresh[d]]
  /\ fresh' = [fresh EXCEPT ![c] = FALSE]
  /\ nops' = nops + 1
  /\ UNCHANGED <<dbVars, engVars, chain, callers, highest, holder>>

\* The call returns (or raises) r to its caller.
Finish(c, r) ==
  /\ pc' = [pc EXCEPT ![c] = "idle"]
  /\ result' = [result EXCEPT ![c] = r]

\* init() up to its first await: the initialized test, then initTables().
InitTables(c) ==
  /\ pc[c] = "init"
  /\ Runnable(c)
  /\ IF initialized[EngineOf(c)]
     THEN /\ pc' = [pc EXCEPT ![c] = AfterInit(op[c])]
          /\ UNCHANGED <<lockTable, stale, result>>
     ELSE \/ /\ writer = 0
             /\ lockTable' = InsertOrIgnoreLockRow(lockTable)
             /\ stale' = IF lockTable' # lockTable THEN Invalidate(c) ELSE stale
             /\ pc' = [pc EXCEPT ![c] = "load"]
             /\ UNCHANGED result
          \/ /\ Finish(c, InitFailure(op[c], "Migration", "db"))
             /\ UNCHANGED <<lockTable, stale>>
  /\ UNCHANGED <<ledger, effects, writer, txLedger, txEffects, engVars, op, row,
                 batch, todo, applied, invoked, pre, wrote, ret, emitVars, histVars>>

\* loadMigrationsFromDirectory(), then this.initialized = true.
LoadMigrations(c) ==
  /\ pc[c] = "load"
  /\ Runnable(c)
  /\ \/ /\ migrations' = [migrations EXCEPT ![EngineOf(c)] = LoadedMigrations(dir[EngineOf(c)])]
        /\ initialized' = [initialized EXCEPT ![EngineOf(c)] = TRUE]
        /\ pc' = [pc EXCEPT ![c] = AfterInit(op[c])]
        /\ UNCHANGED result
     \/ /\ \E k \in 0..Len(LoadedMigrations(dir[EngineOf(c)])) :
             /\ k = 0 \/ k < Len(LoadedMigrations(dir[EngineOf(c)]))
             /\ migrations' = [migrations EXCEPT ![EngineOf(c)] =
                  FailedLoad(@, SubSeq(LoadedMigrations(dir[EngineOf(c)]), 1, k))]
        /\ Finish(c, InitFailure(op[c], "File", "load"))
        /\ UNCHANGED initialized
  /\ UNCHANGED <<dbVars, dir, op, row, stale, batch, todo, applied, invoked, pre,
                 wrote, ret, emitVars, histVars>>

\* ------------------------------------------------------------ acquireLock()
\* BEGIN; SELECT locked; throw when it is 1.
AcquireRead(c) ==
  /\ pc[c] = "acquire"
  /\ Runnable(c)
  /\ row' = [row EXCEPT ![c] = lockTable[1]]
  /\ stale' = [stale EXCEPT ![c] = FALSE]
  /\ IF LockIsHeld(lockTable[1])
     THEN Finish(c, Failed("Lock", "held", <<>>))
     ELSE /\ pc' = [pc EXCEPT ![c] = "acqW"]
          /\ UNCHANGED result
  /\ UNCHANGED <<dbVars, engVars, op, batch, todo, applied, invoked, pre, wrote,
                 ret, emitVars, histVars>>

\* UPDATE locked = 1; COMMIT.  Any failure is rethrown as a MigrationLockError.
AcquireWrite(c) ==
  /\ pc[c] = "acqW"
  /\ \/ /\ SnapshotValid(stale[c])
        /\ writer = 0
        /\ lockTable' = Locked(lockTable)
        /\ stale' = [Invalidate(c) EXCEPT ![c] = FALSE]
        /\ pre' = [pre EXCEPT ![c] = [ledger |-> ledger, effects |-> effects]]
        /\ holder' = c
        /\ pc' = [pc EXCEPT ![c] = "diff"]
        /\ UNCHANGED result
     \/ /\ Finish(c, Failed("Lock", "db", <<>>))
        /\ stale' = [stale EXCEPT ![c] = FALSE]
        /\ UNCHANGED <<lockTable, pre, holder>>
  /\ UNCHANGED <<ledger, effects, writer, txLedger, txEffects, engVars, op, row,
                 batch, todo, applied, invoked, wrote, ret, emitVars, again, fresh,
                 chain, callers, highest, nops>>

\* ------------------------------------------------------------ the batch transaction
\* The ledger and effects as the call's statements see them: a connection sees
\* its own open transaction, every other connection the committed database.
ReadUncommitted(c) == IF writer # 0 THEN txLedger ELSE ledger
ViewLedger(c) == IF writer = c THEN txLedger ELSE ledger
ViewEffects(c) == IF writer = c THEN txEffects ELSE effects

\* The catch blocks of apply() (appliedMigrations: []) and rollback() (appliedMigrations).
CatchResult(c, cause, names) ==
  Failed("Execution", cause, IF op[c] = "apply" THEN <<>> ELSE names)

\* The transaction function threw: ROLLBACK, then the catch block, then finally.
Abort(c, cause, names, wl, we) ==
  /\ ledger' = RolledBack(ledger, wl)
  /\ effects' = RolledBack(effects, we)
  /\ writer' = IF writer = c THEN 0 ELSE writer
  /\ txLedger' = IF writer = c THEN EmptyLedger ELSE txLedger
  /\ txEffects' = IF writer = c THEN NoEffects ELSE txEffects
  /\ ret' = [ret EXCEPT ![c] = CatchResult(c, cause, names)]
  /\ pc' = [pc EXCEPT ![c] = "release"]

\* A statement of the transaction wrote: the call holds the write lock.
Write(c, wl, we) ==
  /\ writer' = c
  /\ txLedger' = wl
  /\ txEffects' = we
  /\ UNCHANGED <<ledger, effects, ret, pc>>

\* apply(): getCurrentBatch, the applied names, the pending filter.
ApplyDiff(c) ==
  /\ pc[c] = "diff"
  /\ op[c] = "apply"
  /\ \/ LET pend == PendingMigrations(migrations[EngineOf(c)], ledger) IN
        /\ batch' = [batch EXCEPT ![c] = GetCurrentBatch(ledger)]
        /\ todo' = [todo EXCEPT ![c] = pend]
        /\ IF Len(pend) = 0
           THEN /\ ret' = [ret EXCEPT ![c] = Ok(applied[c])]
                /\ pc' = [pc EXCEPT ![c] = "release"]
           ELSE /\ pc' = [pc EXCEPT ![c] = "tx"]
                /\ UNCHANGED ret
     \/ /\ ret' = [ret EXCEPT ![c] = CatchResult(c, "db", applied[c])]
        /\ pc' = [pc EXCEPT ![c] = "release"]
        /\ UNCHANGED <<batch, todo>>
  /\ UNCHANGED <<dbVars, engVars, op, row, stale, applied, invoked, pre, wrote,
                 result, emitVars, histVars>>

\* this.emit(event, name, batch): the listeners run synchronously in the caller.
EmitNothing(c, name, b) == events' = events
Emit(c, name, b) == events' = [events EXCEPT ![c] = Append(@, [name |-> name, batch |-> b])]

\* catch (err) { throw new MigrationExecutionError(`... "${migration.name}"`, err) }
NamesUnit(c, m) == errUnit' = [errUnit EXCEPT ![c] = m]

\* One iteration of apply()'s loop: up(db), recordMigration, push, emit; each of
\* them may throw into the iteration's catch block.
ApplyUnit(c) ==
  /\ pc[c] = "tx"
  /\ op[c] = "apply"
  /\ todo[c] # <<>>
  /\ LET m == Head(todo[c])
         wl == ViewLedger(c)
         we == [ViewEffects(c) EXCEPT ![m] = @ + 1]
     IN  \/ /\ writer \in {0, c}
            /\ CanRecord(wl, m)
            /\ Write(c, RecordMigration(wl, m, batch[c] + 1), we)
            /\ invoked' = [invoked EXCEPT ![c] = Append(@, m)]
            /\ applied' = [applied EXCEPT ![c] = Append(@, m)]
            /\ Emit(c, m, batch[c] + 1)
            /\ todo' = [todo EXCEPT ![c] = Tail(@)]
            /\ UNCHANGED errUnit
         \/ /\ writer \in {0, c}
            /\ CanRecord(wl, m)
            /\ Abort(c, "listener", Append(applied[c], m),
                     RecordMigration(wl, m, batch[c] + 1), we)
            /\ invoked' = [invoked EXCEPT ![c] = Append(@, m)]
            /\ applied' = [applied EXCEPT ![c] = Append(@, m)]
            /\ Emit(c, m, batch[c] + 1)
            /\ NamesUnit(c, m)
            /\ UNCHANGED todo
         \/ /\ writer \in {0, c}
            /\ Abort(c, "ledger", applied[c], wl, we)
            /\ invoked' = [invoked EXCEPT ![c] = Append(@, m)]
            /\ NamesUnit(c, m)
            /\ UNCHANGED <<applied, todo, events>>
         \/ /\ Abort(c, "op", applied[c], wl, ViewEffects(c))
            /\ invoked' = [invoked EXCEPT ![c] = Append(@, m)]
            /\ NamesUnit(c, m)
            /\ UNCHANGED <<applied, todo, events>>
  /\ UNCHANGED <<lockTable, engVars, op, row, stale, batch, pre, wrote, result,
                 histVars>>

\* rollback(): getCurrentBatch, then the rows of that batch, name descending.
RollbackDiff(c) ==
  /\ pc[c] = "diff"
  /\ op[c] = "rollback"
  /\ \/ LET b == GetCurrentBatch(ledger)
            rows == RowsOfBatch(ledger, b)
        IN  /\ batch' = [batch EXCEPT ![c] = b]
            /\ todo' = [todo EXCEPT ![c] = rows]
            /\ IF b = 0 \/ Len(rows) = 0
               THEN /\ ret' = [ret EXCEPT ![c] = Ok(applied[c])]
                    /\ pc' = [pc EXCEPT ![c] = "release"]
               ELSE /\ pc' = [pc EXCEPT ![c] = "tx"]
                    /\ UNCHANGED ret
     \/ /\ ret' = [ret EXCEPT ![c] = CatchResult(c, "db", applied[c])]
        /\ pc' = [pc EXCEPT ![c] = "release"]
        /\ UNCHANGED <<batch, todo>>
  /\ UNCHANGED <<dbVars, engVars, op, row, stale, applied, invoked, pre, wrote,
                 result, emitVars, histVars>>

\* One iteration of rollback()'s loop: find, down(db), removeMigration, push, emit.
RollbackUnit(c) ==
  /\ pc[c] = "tx"
  /\ op[c] = "rollback"
  /\ todo[c] # <<>>
  /\ LET m == Head(todo[c])
         wl == ViewLedger(c)
         we == [ViewEffects(c) EXCEPT ![m] = @ - 1]
     IN  IF m \notin Range(migrations[EngineOf(c)])
         THEN /\ Abort(c, "notfound", applied[c], wl, ViewEffects(c))
              /\ UNCHANGED <<invoked, applied, todo, emitVars>>
         ELSE \/ /\ writer \in {0, c}
                 /\ Write(c, RemoveMigration(wl, m, batch[c]), we)
                 /\ invoked' = [invoked EXCEPT ![c] = Append(@, m)]
                 /\ applied' = [applied EXCEPT ![c] = Append(@, m)]
                 /\ Emit(c, m, batch[c])
                 /\ todo' = [todo EXCEPT ![c] = Tail(@)]
                 /\ UNCHANGED errUnit
              \/ /\ writer \in {0, c}
                 /\ Abort(c, "listener", Append(applied[c], m),
                          RemoveMigration(wl, m, batch[c]), we)
                 /\ invoked' = [invoked EXCEPT ![c] = Append(@, m)]
                 /\ applied' = [applied EXCEPT ![c] = Append(@, m)]
                 /\ Emit(c, m, batch[c])
                 /\ NamesUnit(c, m)
                 /\ UNCHANGED todo
              \/ /\ writer \in {0, c}
                 /\ Abort(c, "ledger", applied[c], wl, we)
                 /\ invoked' = [invoked EXCEPT ![c] = Append(@, m)]
                 /\ NamesUnit(c, m)
                 /\ UNCHANGED <<applied, todo, events>>
              \/ /\ Abort(c, "op", applied[c], wl, ViewEffects(c))
                 /\ invoked' = [invoked EXCEPT ![c] = Append(@, m)]
                 /\ NamesUnit(c, m)
                 /\ UNCHANGED <<applied, todo, events>>
  /\ UNCHANGED <<lockTable, engVars, op, row, stale, batch, pre, wrote, result,
                 histVars>>

\* The loop ended: COMMIT, then return { success: true, appliedMigrations }.
Commit(c) ==
  /\ pc[c] = "tx"
  /\ todo[c] = <<>>
  /\ \/ /\ writer = c
        /\ ledger' = txLedger
        /\ effects' = txEffects
        /\ writer' = 0
        /\ txLedger' = EmptyLedger
        /\ txEffects' = NoEffects
        /\ stale' = Invalidate(c)
        /\ wrote' = [wrote EXCEPT ![c] = TRUE]
        /\ ret' = [ret EXCEPT ![c] = Ok(applied[c])]
        /\ pc' = [pc EXCEPT ![c] = "release"]
        /\ IF op[c] = "rollback"
           THEN /\ fresh' = [d \in Calls |-> FALSE]
                /\ again' = [d \in Calls |-> FALSE]
                /\ UNCHANGED <<chain, highest>>
           ELSE /\ chain' = [applied |-> applied[c],
                             fromEmpty |-> ledger = EmptyLedger]
                /\ highest' = IF batch[c] + 1 > highest THEN batch[c] + 1 ELSE highest
                /\ UNCHANGED <<fresh, again>>
     \/ /\ Abort(c, "db", applied[c], ViewLedger(c), ViewEffects(c))
        /\ UNCHANGED <<stale, wrote, fresh, again, chain, highest>>
  /\ UNCHANGED <<lockTable, engVars, op, row, batch, todo, applied, invoked, pre,
                 result, emitVars, callers, holder, nops>>

\* ------------------------------------------------------------ releaseLock()
\* finally { this.releaseLock() }: UPDATE locked = 0, then the call returns ret;
\* a failure is thrown out of the finally block as a MigrationLockError.
Release(c) ==
  /\ pc[c] = "release"
  /\ \/ /\ writer = 0
        /\ lockTable' = Unlocked(lockTable)
        /\ holder' = IF lockTable' = <<0>> THEN 0 ELSE holder
        /\ stale' = Invalidate(c)
        /\ Finish(c, ret[c])
        /\ fresh' = [fresh EXCEPT ![c] = op[c] = "apply" /\ ret[c].success]
     \/ /\ Finish(c, Raised("Lock", "db"))
        /\ UNCHANGED <<lockTable, stale, fresh, holder>>
  /\ chain' = IF op[c] = "rollback" /\ wrote[c] THEN NoChain ELSE chain
  /\ batch' = [batch EXCEPT ![c] = 0]
  /\ todo' = [todo EXCEPT ![c] = <<>>]
  /\ applied' = [applied EXCEPT ![c] = <<>>]
  /\ pre' = [pre EXCEPT ![c] = NoSnapshot]
  /\ ret' = [ret EXCEPT ![c] = NoResult]
  /\ events' = [events EXCEPT ![c] = <<>>]
  /\ errUnit' = [errUnit EXCEPT ![c] = 0]
  /\ UNCHANGED <<ledger, effects, writer, txLedger, txEffects, engVars, op, row,
                 invoked, wrote, again, callers, highest, nops>>

\* ------------------------------------------------------------ process crash
\* The process of call c dies between the COMMIT of acquireLock() and the COMMIT
\* of the batch transaction: SQLite discards the open transaction, the call
\* never returns, finally never runs, and the other calls of the process die
\* with it.
Crash(c) ==
  /\ pc[c] \in {"diff", "tx"}
  /\ pc' = [d \in Calls |->
              IF d = c THEN "crashed"
              ELSE IF EngineOf(d) = EngineOf(c) /\ pc[d] # "idle" THEN "dead"
              ELSE pc[d]]
  /\ writer' = IF writer = c THEN 0 ELSE writer
  /\ txLedger' = IF writer = c THEN EmptyLedger ELSE txLedger
  /\ txEffects' = IF writer = c THEN NoEffects ELSE txEffects
  /\ batch' = [batch EXCEPT ![c] = 0]
  /\ todo' = [todo EXCEPT ![c] = <<>>]
  /\ applied' = [applied EXCEPT ![c] = <<>>]
  /\ events' = [events EXCEPT ![c] = <<>>]
  /\ UNCHANGED <<lockTable, ledger, effects, engVars, op, row, stale, invoked, pre,
                 wrote, ret, result, errUnit, histVars>>

\* ------------------------------------------------------------ status(), plan()
\* ORDER BY batch ASC, name ASC
RowsByName(L, S) ==
  [i \in 1..Cardinality(S) |-> [name |-> SortAsc(S)[i], batch |-> L[SortAsc(S)[i]]]]

RECURSIVE OrderedRows(_, _)
OrderedRows(L, S) ==
  IF S = {} THEN <<>>
  ELSE LET first == CHOOSE n \in S : \A k \in S :
                      L[n] < L[k] \/ (L[n] = L[k] /\ n <= k)
       IN  <<[name |-> first, batch |-> L[first]]>> \o OrderedRows(L, S \ {first})

\* this.migrations.length - appliedNames.size
PendingCount(migs, L) == Len(migs) - Cardinality(AppliedNames(L))

StatusResult(c) ==
  [kind |-> "returned", success |-> TRUE, error |-> "none", cause |-> "none",
   applied |-> <<>>, batch |-> batch[c],
   pending |-> PendingCount(migrations[EngineOf(c)], ViewLedger(c)),
   rows |-> OrderedRows(ViewLedger(c), AppliedNames(ViewLedger(c)))]

\* plan() returns nextBatch in the batch field and pendingMigrations in applied.
PlanResult(c) ==
  [kind |-> "returned", success |-> TRUE, error |-> "none", cause |-> "none",
   applied |-> PendingMigrations(migrations[EngineOf(c)], ViewLedger(c)),
   batch |-> batch[c] + 1, pending |-> 0, rows |-> <<>>]

\* The first query of status() and plan(): getCurrentBatch().
ReadBatch(c) ==
  /\ pc[c] = "batch"
  /\ Runnable(c)
  /\ \/ /\ batch' = [batch EXCEPT ![c] = GetCurrentBatch(ViewLedger(c))]
        /\ pc' = [pc EXCEPT ![c] = "rows"]
        /\ UNCHANGED result
     \/ /\ Finish(c, Raised("Migration", "db"))
        /\ UNCHANGED batch
  /\ UNCHANGED <<dbVars, engVars, op, row, stale, todo, applied, invoked, pre,
                 wrote, ret, emitVars, histVars>>

\* The second query of status() and plan(), and the returned value.
ReadRows(c) ==
  /\ pc[c] = "rows"
  /\ \/ Finish(c, IF op[c] = "status" THEN StatusResult(c) ELSE PlanResult(c))
     \/ Finish(c, Raised("Migration", "db"))
  /\ batch' = [batch EXCEPT ![c] = 0]
  /\ UNCHANGED <<dbVars, engVars, op, row, stale, todo, applied, invoked,
                 pre, wrote, ret, emitVars, histVars>>

\* ------------------------------------------------------------ specification
Operations == {"apply", "rollback", "status", "plan"}

Next ==
  \E c \in Calls :
    \/ \E o \in Operations : Start(c, o)
    \/ InitTables(c)
    \/ LoadMigrations(c)
    \/ AcquireRead(c)
    \/ AcquireWrite(c)
    \/ ApplyDiff(c)
    \/ ApplyUnit(c)
    \/ RollbackDiff(c)
    \/ RollbackUnit(c)
    \/ Commit(c)
    \/ Release(c)
    \/ Crash(c)
    \/ ReadBatch(c)
    \/ ReadRows(c)

Spec == Init /\ [][Next]_vars

\* The code between acquireLock() and the end of releaseLock() has no await: once
\* a call holds the lock it runs on to its return unless the process dies.
LockedSection(c) ==
  \/ ApplyDiff(c)
  \/ ApplyUnit(c)
  \/ RollbackDiff(c)
  \/ RollbackUnit(c)
  \/ Commit(c)
  \/ Release(c)

FairSpec == Spec /\ \A c \in Calls : WF_vars(LockedSection(c))

\* ------------------------------------------------------------ claims
Reverse(q) == [i \in 1..Len(q) |-> q[Len(q) + 1 - i]]

\* The call was stopped by a held lock or by a failing database statement.
StoppedByDatabase(r) == r.cause \in {"held", "db"}

\* C1: at most one batch transaction of apply()/rollback() is open at any time,
\* and at most one call is between a successful acquireLock and its releaseLock.
C1_MutualExclusion ==
  /\ Cardinality({c \in Calls : pc[c] = "tx"}) <= 1
  /\ Cardinality({c \in Calls : InSection(c)}) <= 1

\* C1 witness: an apply() of one engine has its batch transaction open while a
\* rollback() of another engine was turned away by the lock.
C1_Witness ==
  \E c, d \in Calls :
    /\ EngineOf(c) # EngineOf(d)
    /\ pc[c] = "tx" /\ writer = c /\ op[c] = "apply"
    /\ op[d] = "rollback" /\ row[d] = 1 /\ result[d].error = "Lock"

\* The ledger and effects an apply() holding the lock has to produce.
ApplyTarget(c) ==
  LET pend == Range(PendingMigrations(migrations[EngineOf(c)], pre[c].ledger))
      nb == GetCurrentBatch(pre[c].ledger) + 1
  IN  [ledger |-> [n \in Names |-> IF n \in pend THEN nb ELSE pre[c].ledger[n]],
       effects |-> [n \in Names |->
                      IF n \in pend THEN pre[c].effects[n] + 1 ELSE pre[c].effects[n]]]

\* C2: when an apply() with a non-empty pending set is about to return, either
\* it succeeded and every pending migration has a row with the one new batch
\* number and its forward effect in place, or it failed and the ledger and the
\* effects are what they were when the call took the lock.
C2_AtomicBatchApply ==
  \A c \in Calls :
    (/\ pc[c] = "release"
     /\ op[c] = "apply"
     /\ Len(PendingMigrations(migrations[EngineOf(c)], pre[c].ledger)) > 0)
    => \/ /\ ret[c].success
          /\ ledger = ApplyTarget(c).ledger
          /\ effects = ApplyTarget(c).effects
       \/ /\ ~ret[c].success
          /\ ledger = pre[c].ledger
          /\ effects = pre[c].effects

\* C2 witness: an apply() whose second unit failed, after the first unit ran
\* inside the transaction, is about to return.
C2_Witness ==
  \E c \in Calls :
    /\ pc[c] = "release" /\ op[c] = "apply"
    /\ Len(invoked[c]) = 2
    /\ ret[c].cause \in {"op", "ledger"}

\* C3: no forward operation is committed twice; the lists of two successful
\* apply() calls with no rollback committed since are disjoint, and with the
\* same catalog at most one of them is non-empty.
C3_NoDoubleApplication ==
  /\ \A n \in Names : effects[n] <= 1
  /\ \A c, d \in Calls :
       (c # d /\ fresh[c] /\ fresh[d]) =>
         /\ Range(result[c].applied) \cap Range(result[d].applied) = {}
         /\ migrations[EngineOf(c)] = migrations[EngineOf(d)] =>
              (result[c].applied = <<>> \/ result[d].applied = <<>>)

\* C3 witness: two engines with the same catalog ran apply() concurrently; one
\* applied every unit and the other was turned away by the lock.
C3_Witness ==
  \E c, d \in Calls :
    /\ EngineOf(c) # EngineOf(d)
    /\ dir[EngineOf(c)] = dir[EngineOf(d)]
    /\ op[c] = "apply" /\ fresh[c] /\ Len(result[c].applied) = NMig
    /\ op[d] = "apply" /\ row[d] = 1 /\ result[d].error = "Lock"

\* C4: a name has a ledger row exactly when its forward effect is in place, and
\* no forward effect is ever in place twice.
C4_LedgerMatchesEffects ==
  \A n \in Names : effects[n] = IF ledger[n] # 0 THEN 1 ELSE 0

\* C4 witness: after a successful apply() and a failed rollback() the ledger
\* still holds rows.
C4_Witness ==
  \E c \in Calls :
    /\ op[c] = "rollback" /\ pc[c] = "idle"
    /\ result[c].cause \in {"op", "ledger"}
    /\ \A n \in Names : ledger[n] # 0

\* C5: an apply() started after an apply() of the same engine succeeded, with no
\* rollback committed since, invokes no forward operation and commits nothing;
\* unless the lock or a database statement stops it, it returns success with an
\* empty list.
C5_ExactlyOnce ==
  \A c \in Calls :
    again[c] =>
      /\ invoked[c] = <<>>
      /\ ~wrote[c]
      /\ result[c].applied = <<>>
      /\ (result[c].kind # "none" /\ ~StoppedByDatabase(result[c])) =>
           result[c] = Ok(<<>>)

\* C5 witness: the second apply() has returned success with an empty list while
\* the ledger holds every unit.
C5_Witness ==
  \E c \in Calls :
    /\ again[c] /\ pc[c] = "idle" /\ result[c] = Ok(<<>>)
    /\ \A n \in Names : ledger[n] # 0

Returns(c) == pc[c] # "idle" /\ pc'[c] = "idle" /\ result'[c].kind = "returned"

\* C7 as claimed: whenever an apply() returns, succeeded or failed, the lock
\* record does not read locked.
C7_LockFreeAfterAnyApply ==
  [][\A c \in Calls :
       (op[c] = "apply" /\ Returns(c)) =>
         ~(Len(lockTable') > 0 /\ LockIsHeld(lockTable'[1]))]_vars

\* C7 amended: whenever an apply() that acquired the lock returns, succeeded or
\* failed, the lock record reads locked = 0.
C7_LockFreeAfterHolderReturns ==
  [][\A c \in Calls :
       (op[c] = "apply" /\ pc[c] = "release" /\ Returns(c)) => lockTable' = <<0>>]_vars

\* C7 witness: an apply() that failed inside its batch transaction has returned
\* and the lock record reads 0.
C7_Witness ==
  \E c \in Calls :
    /\ op[c] = "apply" /\ pc[c] = "idle"
    /\ result[c].kind = "returned" /\ result[c].cause \in {"op", "ledger"}
    /\ lockTable = <<0>>

\* C8 as claimed: apply() and rollback() never raise; every path hands back a
\* Result.
C8_NeverRaises ==
  \A c \in Calls : op[c] \in {"apply", "rollback"} => result[c].kind # "raised"

\* The ledger and effects a rollback() holding the lock has to produce.
RollbackTarget(c) ==
  LET b == GetCurrentBatch(pre[c].ledger)
      last == {n \in Names : pre[c].ledger[n] = b}
  IN  [ledger |-> [n \in Names |-> IF n \in last THEN 0 ELSE pre[c].ledger[n]],
       effects |-> [n \in Names |->
                      IF n \in last THEN pre[c].effects[n] - 1 ELSE pre[c].effects[n]]]

\* C9: when a rollback() that found a batch to revert is about to return, either
\* it succeeded, every row of the most recent batch is gone and each backward
\* effect is in place, or it failed and the ledger and the effects are what
\* they were when the call took the lock.
C9_AtomicBatchRollback ==
  \A c \in Calls :
    (/\ pc[c] = "release"
     /\ op[c] = "rollback"
     /\ GetCurrentBatch(pre[c].ledger) # 0)
    => \/ /\ ret[c].success
          /\ ledger = RollbackTarget(c).ledger
          /\ effects = RollbackTarget(c).effects
       \/ /\ ~ret[c].success
          /\ ledger = pre[c].ledger
          /\ effects = pre[c].effects

\* C9 witness: a rollback() whose second unit failed, after the first unit was
\* reverted inside the transaction, is about to return.
C9_Witness ==
  \E c \in Calls :
    /\ pc[c] = "release" /\ op[c] = "rollback"
    /\ Len(invoked[c]) = 2
    /\ ret[c].cause \in {"op", "ledger"}

\* What status() of engine e returns when both its queries run in this state.
StatusNow(e) ==
  [currentBatch |-> GetCurrentBatch(ledger),
   pending |-> PendingCount(migrations[e], ledger),
   applied |-> OrderedRows(ledger, AppliedNames(ledger))]

\* C10: when a successful rollback() follows a successful apply() that started
\* from an empty ledger, the ledger is empty again, the rollback's list is the
\* apply's list reversed, and status() reports currentBatch 0, no applied rows
\* and the whole catalog pending.
C10_BatchReversibility ==
  \A c \in Calls :
    (/\ pc[c] = "release"
     /\ op[c] = "rollback"
     /\ ret[c].success
     /\ wrote[c]
     /\ chain.fromEmpty)
    => /\ ledger = EmptyLedger
       /\ ret[c].applied = Reverse(chain.applied)
       /\ \A e \in Engines :
            initialized[e] =>
              StatusNow(e) = [currentBatch |-> 0,
                              pending |-> Len(migrations[e]),
                              applied |-> <<>>]

\* C10 witness: the rollback() of a batch that applied the whole catalog to an
\* empty ledger is about to return success.
C10_Witness ==
  \E c \in Calls :
    /\ pc[c] = "release" /\ op[c] = "rollback"
    /\ ret[c].success /\ wrote[c]
    /\ chain.fromEmpty /\ Len(chain.applied) = NMig

\* C11: when a rollback() that found a batch is about to return success, the
\* rows it deleted are exactly those whose batch was the highest when it took the
\* lock, its list names exactly those rows, every other row is unchanged, and
\* the current batch is the highest batch among the rows that remain (0 if none).
C11_RevertsMostRecentBatch ==
  \A c \in Calls :
    (/\ pc[c] = "release"
     /\ op[c] = "rollback"
     /\ ret[c].success
     /\ GetCurrentBatch(pre[c].ledger) # 0)
    => LET b == GetCurrentBatch(pre[c].ledger)
           last == {n \in Names : pre[c].ledger[n] = b}
           older == {pre[c].ledger[n] : n \in Names \ last} \ {0}
       IN  /\ \A n \in last : ledger[n] = 0
           /\ \A n \in Names \ last : ledger[n] = pre[c].ledger[n]
           /\ Range(ret[c].applied) = last
           /\ StatusNow(EngineOf(c)).currentBatch =
                IF older = {} THEN 0 ELSE MaxOf(older)

\* C11 witness: a rollback() that reverted batch 2 is about to return success
\* while the row of batch 1 is still in the ledger.
C11_Witness ==
  \E c \in Calls :
    /\ pc[c] = "release" /\ op[c] = "rollback"
    /\ ret[c].success /\ wrote[c]
    /\ GetCurrentBatch(pre[c].ledger) = 2
    /\ GetCurrentBatch(ledger) = 1

IsAscending(q) == \A i \in 1..(Len(q) - 1) : q[i] < q[i + 1]
IsDescending(q) == \A i \in 1..(Len(q) - 1) : q[i] > q[i + 1]

\* C12: an apply() invokes its forward operations in strictly ascending name
\* order and a rollback() invokes its backward operations in strictly descending
\* name order; the lists they hand back have the same orders.
C12_Ordering ==
  \A c \in Calls :
    /\ op[c] = "apply" =>
         /\ IsAscending(invoked[c])
         /\ IsAscending(applied[c])
         /\ IsAscending(ret[c].applied)
         /\ IsAscending(result[c].applied)
    /\ op[c] = "rollback" =>
         /\ IsDescending(invoked[c])
         /\ IsDescending(applied[c])
         /\ IsDescending(ret[c].applied)
         /\ IsDescending(result[c].applied)

\* C12 witness: an apply() has returned a list of NMig names and a rollback()
\* that reverted NMig units is about to return.
C12_Witness ==
  \E c, d \in Calls :
    /\ op[c] = "apply" /\ Len(result[c].applied) = NMig
    /\ op[d] = "rollback" /\ pc[d] = "release"
    /\ Len(invoked[d]) = NMig /\ Len(ret[d].applied) = NMig

\* C13 as claimed: a failed apply() or rollback() hands back an empty
\* appliedMigrations list, except a rollback() that failed because a ledger row
\* has no unit in the catalog; a rollback() that failed in a backward operation
\* or a ledger delete names nothing as rolled back.
C13_FailedResultListsNothing ==
  \A c \in Calls :
    (/\ op[c] \in {"apply", "rollback"}
     /\ result[c].kind = "returned"
     /\ ~result[c].success)
    => \/ result[c].applied = <<>>
       \/ op[c] = "rollback" /\ result[c].cause = "notfound"

\* A step in which call c, holding the lock, ends with a failure.
FailsAfterLock(c) == InSection(c) /\ pc'[c] = "idle" /\ ~result'[c].success

\* C14 as claimed: every failure of an apply() that acquired the lock is
\* handed back as a Result with success = false and an ExecutionError; when a
\* forward operation or its ledger insert raised, the error names that unit and
\* wraps what was raised.
C14_FailureIsExecutionError ==
  [][\A c \in Calls :
       (op[c] = "apply" /\ FailsAfterLock(c)) =>
         /\ result'[c].kind = "returned"
         /\ result'[c].error = "Execution"
         /\ ret[c].cause \in {"op", "ledger"} =>
              /\ errUnit[c] = invoked[c][Len(invoked[c])]
              /\ result'[c].cause = ret[c].cause]_vars

\* The part of C14 that does not depend on releaseLock(): what the catch blocks
\* of apply() have put in the return statement.
C14_CatchBlockResult ==
  \A c \in Calls :
    (pc[c] = "release" /\ op[c] = "apply" /\ ~ret[c].success) =>
      /\ ret[c].kind = "returned"
      /\ ret[c].error = "Execution"
      /\ ret[c].cause \in {"op", "ledger"} =>
           errUnit[c] = invoked[c][Len(invoked[c])]

\* C15 as claimed: when a rollback() that found a ledger row of the most recent
\* batch without a unit in its catalog returns, the error in its Result is a
\* FileError, the ledger is what it was when the call took the lock, and the
\* lock record reads 0.
C15_MissingUnitIsFileError ==
  [][\A c \in Calls :
       (/\ op[c] = "rollback"
        /\ pc[c] = "release"
        /\ ret[c].cause = "notfound"
        /\ pc'[c] = "idle")
       => /\ result'[c].kind = "returned"
          /\ ~result'[c].success
          /\ result'[c].error = "File"
          /\ ledger' = pre[c].ledger
          /\ lockTable' = <<0>>]_vars

\* The highest batch number among the rows of ledger L, 0 when it has none.
HighestBatch(L) ==
  IF AppliedNames(L) = {} THEN 0
  ELSE CHOOSE b \in {L[n] : n \in AppliedNames(L)} :
         \A n \in AppliedNames(L) : L[n] <= b

\* The catalog units of engine e that have no row in ledger L.
AbsentUnits(e, L) == {m \in Range(migrations[e]) : m \notin AppliedNames(L)}

\* C16 as claimed: a status() whose two queries read the same ledger returns
\* currentBatch = the highest batch in the ledger and pending = the number of
\* catalog units without a ledger row; pending is never negative and equals the
\* length of what plan() lists as pending for that ledger.
C16_StatusCounts ==
  [][\A c \in Calls :
       (/\ op[c] = "status"
        /\ pc[c] = "rows"
        /\ Returns(c)
        /\ batch[c] = GetCurrentBatch(ledger))
       => /\ result'[c].batch = HighestBatch(ledger)
          /\ result'[c].pending = Cardinality(AbsentUnits(EngineOf(c), ledger))
          /\ result'[c].pending >= 0
          /\ result'[c].pending =
               Len(PendingMigrations(migrations[EngineOf(c)], ledger))]_vars

\* What plan() of engine e returns when both its queries read ledger L.
PlanAt(e, L) ==
  [nextBatch |-> GetCurrentBatch(L) + 1,
   pendingMigrations |-> PendingMigrations(migrations[e], L)]

\* C17: a plan() whose two queries read the same ledger returns nextBatch = the
\* highest batch in the ledger + 1 and pendingMigrations = the catalog units
\* without a ledger row in ascending name order; an apply() that commits has
\* applied exactly what plan() returns for the ledger the apply() found, under
\* that nextBatch.
C17_PlanPredictsApply ==
  [][\A c \in Calls :
       /\ (/\ op[c] = "plan"
           /\ pc[c] = "rows"
           /\ Returns(c)
           /\ batch[c] = GetCurrentBatch(ledger))
          => /\ result'[c].batch = HighestBatch(ledger) + 1
             /\ result'[c].applied = SortAsc(AbsentUnits(EngineOf(c), ledger))
             /\ result'[c].batch = PlanAt(EngineOf(c), ledger).nextBatch
             /\ result'[c].applied = PlanAt(EngineOf(c), ledger).pendingMigrations
       /\ (/\ op[c] = "apply"
           /\ pc[c] = "tx"
           /\ pc'[c] = "release"
           /\ ret'[c].success)
          => LET p == PlanAt(EngineOf(c), pre[c].ledger)
             IN  /\ ret'[c].applied = p.pendingMigrations
                 /\ \A n \in Range(ret'[c].applied) : ledger'[n] = p.nextBatch]_vars

\* C17 witness: a plan() of one engine returned the whole catalog for batch 1,
\* and the apply() of another engine with the same catalog that ran next is
\* about to return that list, recorded under batch 1.
C17_Witness ==
  \E c, d \in Calls :
    /\ op[d] = "plan" /\ result[d].kind = "returned"
    /\ Len(result[d].applied) = NMig
    /\ op[c] = "apply" /\ pc[c] = "release" /\ ret[c].success
    /\ ret[c].applied = result[d].applied
    /\ \A n \in Range(ret[c].applied) : ledger[n] = result[d].batch

\* C18: no step of a status() or plan() call changes the ledger, the schema
\* effects or an existing lock record; such a call never reads the lock record,
\* never enters acquireLock or a batch transaction, invokes no operation, emits
\* nothing, and never ends with a LockError, whatever the lock record reads.
C18_LockFreeReads ==
  [][\A c \in Calls :
       (/\ op[c] \in {"status", "plan"}
        /\ pc[c] # "idle"
        /\ pc'[c] \notin {pc[c], "dead"}) =>
         /\ ledger' = ledger
         /\ effects' = effects
         /\ lockTable # <<>> => lockTable' = lockTable
         /\ row'[c] = -1
         /\ invoked'[c] = <<>>
         /\ events'[c] = <<>>
         /\ ~wrote'[c]
         /\ pc'[c] \in {"load", "batch", "rows", "idle"}
         /\ result'[c].error # "Lock"]_vars

\* C18 witness: while an apply() that committed batch 1 still holds the lock,
\* a status() has read currentBatch = 1 and is at its second query.
C18_Witness ==
  \E c, d \in Calls :
    /\ op[c] = "apply" /\ pc[c] = "release" /\ wrote[c]
    /\ lockTable = <<1>>
    /\ nops = 2
    /\ op[d] = "status" /\ pc[d] = "rows" /\ batch[d] = 1

\* A listener of the event emitted last by call c threw.
ListenerRaised(c) == ret[c].cause = "listener"

\* C19 as claimed: when an apply() or rollback() during which a listener threw
\* is about to return, its Result and the ledger are those of the same call
\* without the throw (the batch is committed, success = true), and no call
\* emits the event of one migration twice.
C19_ObserversNeverAffect ==
  \A c \in Calls :
    /\ (pc[c] = "release" /\ ListenerRaised(c)) =>
         /\ ret[c].success
         /\ wrote[c]
         /\ ledger = IF op[c] = "apply" THEN ApplyTarget(c).ledger
                     ELSE RollbackTarget(c).ledger
    /\ \A i, j \in 1..Len(events[c]) :
         events[c][i].name = events[c][j].name => i = j

\* C20 as claimed: when an apply() is about to return, every migration it
\* emitted an applied event for has a ledger row with the emitted batch; when a
\* rollback() is about to return, every migration it emitted a rolled-back event
\* for has no ledger row; a call whose transaction was aborted emitted nothing.
C20_EventsReportCommittedWork ==
  \A c \in Calls :
    pc[c] = "release" =>
      /\ \A i \in 1..Len(events[c]) :
           IF op[c] = "apply"
           THEN ledger[events[c][i].name] = events[c][i].batch
           ELSE ledger[events[c][i].name] = 0
      /\ ~wrote[c] => events[c] = <<>>

\* A step in which apply() call c commits its batch transaction.
CommitsApply(c) ==
  op[c] = "apply" /\ pc[c] = "tx" /\ pc'[c] = "release" /\ ret'[c].success

\* C21 as claimed: an apply() that commits gives every row it wrote the one
\* number max(batch) + 1, and that number is strictly greater than the number
\* assigned by every earlier apply(), also when a rollback() came in between.
C21_BatchAboveEveryEarlierApply ==
  [][\A c \in Calls :
       CommitsApply(c) =>
         /\ \A n \in Range(ret'[c].applied) : ledger'[n] = HighestBatch(ledger) + 1
         /\ HighestBatch(ledger) + 1 > highest]_vars

\* C21 amended: an apply() that commits gives every row it wrote the one number
\* max(batch) + 1, strictly greater than the batch of every row the ledger held,
\* and leaves those rows as they were.
C21_BatchAboveEveryLedgerRow ==
  [][\A c \in Calls :
       CommitsApply(c) =>
         /\ ret'[c].applied # <<>>
         /\ \A n \in Range(ret'[c].applied) :
              ledger[n] = 0 /\ ledger'[n] = HighestBatch(ledger) + 1
         /\ \A n \in Names \ Range(ret'[c].applied) :
              ledger'[n] = ledger[n] /\ ledger[n] < HighestBatch(ledger) + 1]_vars

\* C21 witness: an apply() that wrote batch 2 on top of a row of batch 1 is
\* about to return.
C21_Witness ==
  \E c \in Calls :
    /\ op[c] = "apply" /\ pc[c] = "release" /\ wrote[c]
    /\ \E n, k \in Names : ledger[n] = 1 /\ ledger[k] = 2 /\ k \in Range(ret[c].applied)

\* A step in which init() of call c throws: initTables() or the catalog load failed.
InitFails(c) == pc[c] \in {"init", "load"} /\ pc'[c] = "idle"

\* C22: when init() fails, status() and plan() raise a MigrationError (schema)
\* or a FileError (catalog) to the caller, and apply() and rollback() return a
\* Result with success = false, that error and an empty list; the call has not
\* read or written the lock record and the ledger is untouched.
C22_InitFailurePropagation ==
  [][\A c \in Calls :
       InitFails(c) =>
         LET err == IF pc[c] = "init" THEN "Migration" ELSE "File" IN
         /\ result'[c].error = err
         /\ ~result'[c].success
         /\ result'[c].applied = <<>>
         /\ result'[c].kind = IF op[c] \in {"status", "plan"} THEN "raised" ELSE "returned"
         /\ row'[c] = -1
         /\ lockTable' = lockTable
         /\ ledger' = ledger
         /\ effects' = effects
         /\ invoked'[c] = <<>>]_vars

\* C22 witness: an apply() has returned the FileError of a failed catalog load
\* and a status() has raised the MigrationError of a failed initTables().
C22_Witness ==
  \E c, d \in Calls :
    /\ op[c] = "apply" /\ result[c] = Failed("File", "load", <<>>)
    /\ op[d] = "status" /\ result[d] = Raised("Migration", "db")

\* Every engine's catalog is empty (never loaded) or the whole sorted directory,
\* an engine that is not initialized has no catalog, and every call past init()
\* runs on an initialized engine.
NoPartialCatalog ==
  /\ \A e \in Engines :
       /\ migrations[e] \in {<<>>, LoadedMigrations(dir[e])}
       /\ ~initialized[e] => migrations[e] = <<>>
  /\ \A c \in Calls :
       pc[c] \notin {"idle", "init", "load"} => initialized[EngineOf(c)]

\* C23: a catalog load that fails ends the call with a FileError and leaves the
\* engine's catalog and its initialized flag exactly as they were; no partly
\* loaded catalog is ever installed or used.
C23_LoadAllOrNothing ==
  [][/\ \A c \in Calls :
          (pc[c] = "load" /\ InitFails(c)) =>
            /\ result'[c].error = "File"
            /\ migrations' = migrations
            /\ initialized' = initialized
     /\ NoPartialCatalog']_vars

\* C23 witness: a call of an engine with units in its directory has ended with
\* the FileError of a failed load, and the engine has no catalog and is not
\* initialized.
C23_Witness ==
  \E c \in Calls :
    /\ pc[c] = "idle" /\ result[c].cause = "load"
    /\ Len(LoadedMigrations(dir[EngineOf(c)])) = NMig
    /\ migrations[EngineOf(c)] = <<>>
    /\ ~initialized[EngineOf(c)]

\* A step in which init() of call c completes: the catalog is installed and
\* this.initialized is set.
InitCompletes(c) == pc[c] = "load" /\ pc'[c] \notin {"load", "idle"}

\* C24 as claimed: on one engine init() completes at most once, whatever the
\* overlap of its calls, and the catalog of an initialized engine never changes.
C24_InitOncePerEngine ==
  [][/\ \A c \in Calls : InitCompletes(c) => ~initialized[EngineOf(c)]
     /\ \A e \in Engines : initialized[e] => migrations'[e] = migrations[e]]_vars

\* C25: once the process of a lock holder has crashed before its batch commit,
\* the lock record reads 1 and stays 1, the ledger and the effects are what the
\* holder found and stay so, and every apply() or rollback() that ends
\* afterwards fails with an empty list: with the LockError of a held lock unless
\* a failing database statement or catalog load stopped it earlier.
C25_CrashLeavesLockHeld ==
  [][\A c \in Calls :
       pc[c] = "crashed" =>
         /\ lockTable = <<1>> /\ lockTable' = <<1>>
         /\ ledger = pre[c].ledger /\ ledger' = ledger
         /\ effects = pre[c].effects /\ effects' = effects
         /\ \A d \in Calls :
              (/\ op[d] \in {"apply", "rollback"}
               /\ pc[d] \notin {"idle", "crashed", "dead"}
               /\ pc'[d] = "idle")
              => /\ ~result'[d].success
                 /\ result'[d].applied = <<>>
                 /\ result'[d].cause \notin {"db", "load"} =>
                      result'[d] = Failed("Lock", "held", <<>>)]_vars

\* C25 witness: a holder crashed after it had run a unit inside its batch
\* transaction, and a later rollback() of another process was turned away by
\* the lock.
C25_Witness ==
  \E c, d \in Calls :
    /\ pc[c] = "crashed" /\ invoked[c] # <<>>
    /\ op[d] = "rollback" /\ pc[d] = "idle"
    /\ row[d] = 1 /\ result[d] = Failed("Lock", "held", <<>>)

C27_PendingComputedUnderLock ==
  [][\A c \in Calls :
       /\ (/\ op[c] = "apply"
           /\ pc[c] = "diff"
           /\ pc'[c] = "tx" \/ (pc'[c] = "release" /\ ret'[c].success))
          => /\ lockTable = <<1>>
             /\ row[c] = 0
             /\ ledger = pre[c].ledger
             /\ todo'[c] = SortAsc(AbsentUnits(EngineOf(c), ledger))
             /\ batch'[c] = HighestBatch(ledger)
       /\ CommitsApply(c)
          => /\ lockTable = <<1>>
             /\ ledger = pre[c].ledger
             /\ invoked[c] = SortAsc(AbsentUnits(EngineOf(c), pre[c].ledger))
             /\ ret'[c].applied = invoked[c]]_vars

\* C27 witness: an apply() that found the last unit already in the ledger has
\* applied the first unit alone and is about to return.
C27_Witness ==
  \E c \in Calls :
    /\ op[c] = "apply" /\ pc[c] = "release" /\ wrote[c]
    /\ pre[c].ledger[NMig] # 0
    /\ ret[c].applied = <<1>>

\* Init, LockAcquired, DiffComputed, Executing, Committed | RolledBack,
\* LockReleased, Done as positions of a call.
Stage(p) ==
  CASE p = "init" -> 1
    [] p = "load" -> 2
    [] p = "acquire" -> 3
    [] p = "acqW" -> 4
    [] p = "diff" -> 5
    [] p = "tx" -> 6
    [] p = "release" -> 7
    [] OTHER -> 0

\* C28: a running apply() or rollback() only moves forward through init,
\* acquire, diff, transaction, release, and ends from the locked section only
\* through release; the ledger and the effects change only in the commit of a
\* call that holds the lock, a transaction has written only while its call holds
\* the lock, and the lock record goes from 1 to 0 only in the release step of a
\* call whose transaction is over.
C28_LinearOrder ==
  [][/\ \A c \in Calls :
          (op[c] \in {"apply", "rollback"} /\ pc[c] # "idle" /\ pc'[c] # pc[c]) =>
            \/ pc'[c] \in {"crashed", "dead"}
            \/ pc'[c] = "idle" /\ pc[c] \notin {"diff", "tx"}
            \/ Stage(pc'[c]) > Stage(pc[c])
     /\ (ledger' # ledger \/ effects' # effects) =>
          \E c \in Calls :
            /\ pc[c] = "tx" /\ pc'[c] = "release" /\ writer = c
            /\ row[c] = 0
            /\ lockTable = <<1>> /\ lockTable' = <<1>>
     /\ writer' # 0 =>
          /\ pc'[writer'] = "tx"
          /\ lockTable' = <<1>>
     /\ (lockTable = <<1>> /\ lockTable' = <<0>>) =>
          \E c \in Calls :
            /\ pc[c] = "release" /\ pc'[c] = "idle"
            /\ writer = 0 /\ writer' = 0]_vars

\* C28 witness: a rollback() has committed its batch transaction and still
\* holds the lock.
C28_Witness ==
  \E c \in Calls :
    /\ op[c] = "rollback" /\ pc[c] = "release" /\ wrote[c]
    /\ writer = 0 /\ lockTable = <<1>>
    /\ ledger # pre[c].ledger

\* A step in which acquireLock() of call c throws.
AcquireFails(c) == pc[c] \in {"acquire", "acqW"} /\ pc'[c] = "idle"

\* C29: a call that finds the lock record at 1 ends in that step; a call whose
\* acquireLock() fails returns success = false with a LockError and an empty
\* list, and that step leaves the lock record, the ledger, the effects and every
\* open transaction as they were; the call has invoked, emitted and committed
\* nothing.
C29_FailedAcquireChangesNothing ==
  [][\A c \in Calls :
       /\ (pc[c] = "acquire" /\ pc'[c] \notin {"acquire", "dead"} /\ lockTable = <<1>>)
          => AcquireFails(c) /\ lockTable' = <<1>>
       /\ AcquireFails(c)
          => /\ result'[c].kind = "returned"
             /\ ~result'[c].success
             /\ result'[c].error = "Lock"
             /\ result'[c].applied = <<>>
             /\ lockTable' = lockTable
             /\ ledger' = ledger
             /\ effects' = effects
             /\ writer' = writer
             /\ invoked'[c] = <<>>
             /\ events'[c] = <<>>
             /\ ~wrote'[c]]_vars

\* C29 witness: an apply() was turned away by the lock another call still
\* holds, and the lock record still reads 1.
C29_Witness ==
  \E c, d \in Calls :
    /\ op[c] = "apply" /\ pc[c] = "idle" /\ row[c] = 1
    /\ result[c] = Failed("Lock", "held", <<>>)
    /\ InSection(d) /\ lockTable = <<1>>

\* C30: an apply() that holds the lock and finds every catalog unit in the
\* ledger goes from its ledger reads straight to the return, with success = true
\* and an empty list unless a read failed, and opens no transaction; when it
\* ends it has invoked, emitted and committed nothing, the ledger is what it
\* found, and when it hands back its Result the lock record reads 0.
C30_EmptyPendingSet ==
  [][\A c \in Calls :
       op[c] = "apply" =>
         /\ (/\ pc[c] = "diff"
             /\ pc'[c] \notin {"diff", "crashed"}
             /\ AbsentUnits(EngineOf(c), ledger) = {})
            => /\ pc'[c] = "release"
               /\ ret'[c] = Ok(<<>>) \/ ret'[c].cause = "db"
               /\ writer' = writer
               /\ ledger' = ledger
         /\ (/\ pc[c] = "release"
             /\ pc'[c] = "idle"
             /\ AbsentUnits(EngineOf(c), pre[c].ledger) = {})
            => /\ invoked[c] = <<>>
               /\ events[c] = <<>>
               /\ ~wrote[c]
               /\ ledger' = pre[c].ledger
               /\ Returns(c) =>
                    /\ lockTable' = <<0>>
                    /\ result'[c].applied = <<>>
                    /\ result'[c].success \/ result'[c].cause = "db"]_vars

\* C30 witness: an apply() that found a non-empty ledger holding its whole
\* catalog is about to return success with an empty list.
C30_Witness ==
  \E c \in Calls :
    /\ op[c] = "apply" /\ pc[c] = "release"
    /\ ret[c] = Ok(<<>>) /\ ~wrote[c]
    /\ ledger # EmptyLedger
    /\ AbsentUnits(EngineOf(c), ledger) = {}

\* C31: a rollback() that holds the lock and finds the ledger empty goes from
\* its ledger read straight to the return, with success = true and an empty
\* list unless the read failed, and opens no transaction; when it ends it has
\* invoked no backward operation, emitted nothing and committed nothing, the
\* ledger is still empty, and when it hands back its Result the lock record
\* reads 0.
C31_RollbackOnEmptyLedger ==
  [][\A c \in Calls :
       op[c] = "rollback" =>
         /\ (/\ pc[c] = "diff"
             /\ pc'[c] \notin {"diff", "crashed"}
             /\ ledger = EmptyLedger)
            => /\ pc'[c] = "release"
               /\ ret'[c] = Ok(<<>>) \/ ret'[c].cause = "db"
               /\ writer' = writer
               /\ ledger' = EmptyLedger
         /\ (/\ pc[c] = "release"
             /\ pc'[c] = "idle"
             /\ pre[c].ledger = EmptyLedger)
            => /\ invoked[c] = <<>>
               /\ events[c] = <<>>
               /\ ~wrote[c]
               /\ ledger' = EmptyLedger
               /\ Returns(c) =>
                    /\ lockTable' = <<0>>
                    /\ result'[c].applied = <<>>
                    /\ result'[c].success \/ result'[c].cause = "db"]_vars

\* C31 witness: a rollback() that acquired the lock over an empty ledger has
\* returned success with an empty list; the ledger is empty and the lock is free.
C31_Witness ==
  \E c \in Calls :
    /\ op[c] = "rollback" /\ pc[c] = "idle" /\ row[c] = 0
    /\ result[c] = Ok(<<>>)
    /\ invoked[c] = <<>> /\ ~wrote[c]
    /\ ledger = EmptyLedger /\ lockTable = <<0>>

\* The names carried by a call's events, in the order they were emitted.
EventNames(c) == [i \in 1..Len(events[c]) |-> events[c][i].name]

\* The batch number a call writes and reports: nextBatch for apply(),
\* currentBatch for rollback().
UnitBatch(c) == IF op[c] = "apply" THEN batch[c] + 1 ELSE batch[c]

\* q is an initial segment of r.
IsPrefix(q, r) == Len(q) <= Len(r) /\ SubSeq(r, 1, Len(q)) = q

\* C32: inside the batch transaction, each unit's operation (up for apply(),
\* down for rollback()) is invoked first, then its ledger row is written
\* (inserted with nextBatch, or deleted), then its name is pushed, then its
\* event (name, nextBatch or currentBatch) is emitted, all before the next unit
\* starts: between units the invoked names, the pushed names and the emitted
\* names are the same sequence and the transaction's ledger has each of them
\* written; when the loop stops inside a unit, that unit alone may be invoked
\* without being pushed, and a name is emitted exactly when it was pushed.
C32_PerUnitStepOrder ==
  \A c \in Calls :
    pc[c] \in {"tx", "release"} =>
      /\ EventNames(c) = applied[c]
      /\ \A i \in 1..Len(events[c]) : events[c][i].batch = UnitBatch(c)
      /\ IsPrefix(applied[c], invoked[c])
      /\ Len(invoked[c]) <= Len(applied[c]) + 1
      /\ pc[c] = "tx" =>
           /\ invoked[c] = applied[c]
           /\ \A i \in 1..Len(applied[c]) :
                ViewLedger(c)[applied[c][i]] = (IF op[c] = "apply" THEN UnitBatch(c) ELSE 0)

\* C32 witness: an apply() is between its first and its second unit: the first
\* was invoked, recorded with nextBatch, pushed and reported, the second has not
\* started.
C32_Witness ==
  \E c \in Calls :
    /\ op[c] = "apply" /\ pc[c] = "tx" /\ writer = c
    /\ Len(applied[c]) = 1 /\ todo[c] # <<>>
    /\ invoked[c] = applied[c]
    /\ events[c] = <<[name |-> applied[c][1], batch |-> batch[c] + 1]>>
    /\ txLedger[applied[c][1]] = batch[c] + 1

\* status() of call c returns its value in this step.
StatusReturns(c) == op[c] = "status" /\ pc[c] = "rows" /\ Returns(c)

\* C33: the applied list status() returns holds exactly the rows of the ledger
\* at the time of its query, each once, with their batch numbers, ordered by
\* batch ascending and by name ascending within a batch.
C33_StatusListsLedgerInOrder ==
  [][\A c \in Calls :
       StatusReturns(c) =>
         LET r == result'[c].rows IN
           /\ Len(r) = Cardinality(AppliedNames(ledger))
           /\ {r[i].name : i \in 1..Len(r)} = AppliedNames(ledger)
           /\ \A i \in 1..Len(r) : r[i].batch = ledger[r[i].name]
           /\ \A i, j \in 1..Len(r) :
                i < j => \/ r[i].batch < r[j].batch
                         \/ r[i].batch = r[j].batch /\ r[i].name < r[j].name]_vars

\* C33 witness: status() returned a ledger of two batches whose batch order is
\* the reverse of the name order.
C33_Witness ==
  \E c \in Calls :
    /\ op[c] = "status" /\ pc[c] = "idle"
    /\ result[c].kind = "returned"
    /\ Len(result[c].rows) = 2
    /\ result[c].rows[1].batch < result[c].rows[2].batch
    /\ result[c].rows[1].name > result[c].rows[2].name

\* C34: the lock record goes from 1 to 0 only in the releaseLock() step of the
\* call whose acquireLock() succeeded last and which has not released since;
\* that call is the only one between acquireLock and releaseLock, and the step
\* moves no other call.
C34_ReleaseOnlyByHolder ==
  [][(lockTable = <<1>> /\ lockTable' = <<0>>) =>
       \E c \in Calls :
         /\ holder = c
         /\ op[c] \in {"apply", "rollback"}
         /\ pc[c] = "release" /\ pc'[c] = "idle"
         /\ \A d \in Calls \ {c} : ~InSection(d) /\ pc'[d] = pc[d]]_vars

\* C34 witness: the holder has released the lock it acquired while a call of
\* the other engine is in the middle of an operation.
C34_Witness ==
  \E c, d \in Calls :
    /\ c # d /\ holder = 0 /\ lockTable = <<0>>
    /\ pc[c] = "idle" /\ row[c] = 0 /\ result[c].kind = "returned"
    /\ pc[d] \in {"init", "load", "acquire", "acqW", "batch", "rows"}

\* The batch values of the rows of ledger L.
BatchValues(L) == {L[n] : n \in AppliedNames(L)}

\* Every row of L has a batch of at least 1 and the batch values are 1..k for
\* the number k of distinct values, that is 1..MAX(batch) without a gap.
Contiguous(L) ==
  /\ \A n \in Names : L[n] >= 0
  /\ BatchValues(L) = 1..Cardinality(BatchValues(L))

\* C35: in every state the committed ledger, and the ledger as the open batch
\* transaction sees it, have batch >= 1 on every row and exactly the batch
\* values 1..currentBatch; a unit is inserted only when it has no row, so no
\* name is in two rows.
C35_BatchesContiguous ==
  /\ Contiguous(ledger)
  /\ writer # 0 => Contiguous(txLedger)
  /\ \A c \in Calls :
       (op[c] = "apply" /\ pc[c] \in {"tx", "release"}) =>
         \A i \in 1..Len(applied[c]) :
           /\ pre[c].ledger[applied[c][i]] = 0
           /\ \A j \in 1..Len(applied[c]) : i # j => applied[c][i] # applied[c][j]

\* C35 witness: the committed ledger holds batch 1 and batch 2, and a rollback()
\* has deleted the row of batch 2 inside its open transaction.
C35_Witness ==
  \E c \in Calls :
    /\ op[c] = "rollback" /\ pc[c] = "tx" /\ writer = c
    /\ BatchValues(ledger) = {1, 2}
    /\ BatchValues(txLedger) = {1}

\* The names whose ledger rows the batch of call w inserts or deletes.
BatchRows(w) ==
  LET t == IF op[w] = "apply" THEN ApplyTarget(w) ELSE RollbackTarget(w)
  IN  {n \in Names : t.ledger[n] # pre[w].ledger[n]}

\* The names a status() or plan() of engine e can tell apart: status() lists
\* every ledger row, plan() lists the catalog units without a row.
Visible(e, o) == IF o = "status" THEN Names ELSE Range(migrations[e])

\* The names the returned value r of a status() or plan() shows as having a row.
SeenApplied(r, e, o) ==
  IF o = "status" THEN {r.rows[i].name : i \in 1..Len(r.rows)}
  ELSE Range(migrations[e]) \ Range(r.applied)

\* C36: when a status() or plan() returns while another call is between its
\* acquireLock and its releaseLock, the rows it shows hold either none or all
\* of the rows that call's batch inserts (or deletes); as long as the batch
\* transaction has not committed they are the rows of the ledger as it was
\* when that call took the lock.
C36_ReadsSeeWholeBatches ==
  [][\A c \in Calls :
       (pc[c] = "rows" /\ Returns(c)) =>
         \A w \in Calls \ {c} :
           InSection(w) =>
             LET seen == SeenApplied(result'[c], EngineOf(c), op[c])
                 mine == BatchRows(w) \cap Visible(EngineOf(c), op[c])
             IN  /\ mine \cap seen = {} \/ mine \subseteq seen
                 /\ ~wrote[w] =>
                      seen = AppliedNames(pre[w].ledger) \cap Visible(EngineOf(c), op[c])]_vars

\* C36 witness: a status() or plan() of one engine is between its two queries
\* while the open transaction of another engine's call has written one row of
\* a batch of two.
C36_Witness ==
  \E c, w \in Calls :
    /\ EngineOf(c) # EngineOf(w)
    /\ pc[c] = "rows"
    /\ pc[w] = "tx" /\ writer = w
    /\ Len(applied[w]) = 1 /\ todo[w] # <<>>
    /\ txLedger # ledger

\* A step in which call c runs initTables(), to its end or to a throw.
RunsInitTables(c) ==
  /\ pc[c] = "init" /\ ~initialized[EngineOf(c)]
  /\ pc'[c] \in {"load", "idle"}

\* C37: every run of initTables(), on any engine and whatever the lock record
\* reads, leaves the ledger, the effects and every open transaction as they
\* were; when it completes the lock table has exactly one row; a lock row that
\* existed keeps its value, a missing one is created reading 0; and a run that
\* throws reports a MigrationError of the database, not of an existing table,
\* and changes nothing.
C37_InitTablesPreservesState ==
  [][\A c \in Calls :
       RunsInitTables(c) =>
         /\ ledger' = ledger
         /\ effects' = effects
         /\ <<writer', txLedger', txEffects'>> = <<writer, txLedger, txEffects>>
         /\ Len(lockTable) = 1 => lockTable' = lockTable
         /\ pc'[c] = "load" =>
              /\ Len(lockTable') = 1
              /\ Len(lockTable) = 0 => lockTable' = <<0>>
         /\ pc'[c] = "idle" =>
              /\ lockTable' = lockTable
              /\ result'[c].error = "Migration" /\ result'[c].cause = "db"]_vars

\* C37 witness: initTables() of a second engine has completed on tables that
\* exist, with rows in the ledger, while a call of the other engine holds the
\* lock.
C37_Witness ==
  \E c, d \in Calls :
    /\ EngineOf(c) # EngineOf(d)
    /\ pc[c] = "load" /\ ~initialized[EngineOf(c)]
    /\ initialized[EngineOf(d)] /\ InSection(d)
    /\ lockTable = <<1>> /\ ledger # EmptyLedger

====
